---- MODULE Spec2Model ----
(***************************************************************************)
(* Model of ethereum/serenity_blocks.py: the journaled State, the Block    *)
(* constructor, block_state_transition, tx_state_transition and apply_msg. *)
(*                                                                         *)
(* Byte strings are tagged tuples:                                         *)
(*   <<"e">>        the empty string ''                                    *)
(*   <<"w", n>>     the 32-byte big-endian word of n (encode_int32)        *)
(*   <<"int", n>>   a Python int, before set_storage canonicalises it      *)
(*   <<"l", items>> an RLP-encoded list                                    *)
(*   <<"h", c>>     sha3 of the code c                                     *)
(*   <<"r", t>>     the root hash of the account trie with contents t      *)
(* Addresses are <<base, shard>>.                                          *)
(***************************************************************************)
EXTENDS Integers, Sequences, FiniteSets, TLC

\* ------------------------------------------------------------------------
\* Bounds
\* ------------------------------------------------------------------------
\* The driver of a State stops writing when the journal has this length
MaxJournal == 3

\* Journal entries a parent and its clone may write together
MaxCloneOps == 2

Empty == <<"e">>

W(n) == <<"w", n>>

\* 2 ** 256, the range of a 32-byte word, scaled down to 2 ** 8
TT256 == 256

\* utils.encode_int32 = zpad(int_to_big_endian(v), 32): int_to_big_endian
\* yields '' for v <= 0, so a negative v is stored as the zero word
encode_int32(v) == IF v < 0 THEN W(0) ELSE W(v % TT256)

\* utils.big_endian_to_int: '' is 0
big_endian_to_int(b) == IF b[1] = "w" THEN b[2] ELSE 0

\* isinstance(x, (int, long)) -> encode_int32(x)
Canon(x) == IF x[1] = "int" THEN encode_int32(x[2]) ELSE x

\* ------------------------------------------------------------------------
\* Finite maps (Python dicts)
\* ------------------------------------------------------------------------
EmptyMap == [x \in {} |-> 0]

Put(f, k, v) == [x \in DOMAIN f \cup {k} |-> IF x = k THEN v ELSE f[x]]

Del(f, k) == [x \in DOMAIN f \ {k} |-> f[x]]

\* ------------------------------------------------------------------------
\* trie.Trie: a storage trie is a map key -> non-empty value, the account
\* trie a map address -> storage trie.  The root hash of a trie is modelled
\* by its contents (a collision-free hash).
\* ------------------------------------------------------------------------
BLANK_ROOT == EmptyMap

\* trie.get(key): '' when absent
TrieGet(t, k) == IF k \in DOMAIN t THEN t[k] ELSE Empty

\* trie.update(key, value): an empty value removes the key
TrieUpdate(t, k, v) == IF v = Empty THEN Del(t, k) ELSE Put(t, k, v)

\* trie.Trie(db) with root_hash = state.get(addr)
AccountTrie(root_hash, addr) ==
    IF addr \in DOMAIN root_hash THEN root_hash[addr] ELSE BLANK_ROOT

\* ------------------------------------------------------------------------
\* class State
\* ------------------------------------------------------------------------
\* db.EphemDB(): the blobs stored under UNHASH_MAGIC_BYTES + hash
EphemDB == [kv |-> {}, under |-> {}]

\* db.OverlayDB(db): writes are buffered in kv, reads fall through to db
OverlayDB(db) == [kv |-> {}, under |-> db.kv \cup db.under]

\* State.__init__(state_root, db)
NewState(state_root, db) ==
    [root_hash |-> state_root, db |-> db, journal |-> <<>>,
     cache |-> EmptyMap, modified |-> EmptyMap]

\* The value get_storage returns
Lookup(st, addr, k) ==
    IF addr \in DOMAIN st.cache /\ k \in DOMAIN st.cache[addr]
    THEN st.cache[addr][k]
    ELSE TrieGet(AccountTrie(st.root_hash, addr), k)

\* State.get_storage: the state afterwards (the read is memoised)
get_storage(st, addr, k) ==
    IF addr \notin DOMAIN st.cache
    THEN [st EXCEPT !.cache = Put(@, addr, Put(EmptyMap, k,
                        TrieGet(AccountTrie(st.root_hash, addr), k)))]
    ELSE IF k \in DOMAIN st.cache[addr]
    THEN st
    ELSE [st EXCEPT !.cache[addr] = Put(@, k,
                        TrieGet(AccountTrie(st.root_hash, addr), k))]

\* State.set_storage
set_storage(st, addr, k0, v0) ==
    LET k == Canon(k0)
        v == Canon(v0)
        s1 == get_storage(st, addr, k)
        s2 == [s1 EXCEPT !.journal = Append(@,
                  [tag |-> "set", addr |-> addr, key |-> k,
                   preval |-> Lookup(st, addr, k)])]
        s3 == [s2 EXCEPT !.cache[addr] = Put(@, k, v)]
        m  == IF addr \in DOMAIN s3.modified THEN s3.modified[addr] ELSE {}
    IN  [s3 EXCEPT !.modified = Put(@, addr, m \cup {k})]

\* Mutant of CommitKeys: writes every modified key, changed or not
CommitKeys_NoCompare(st, addr) ==
    {k \in DOMAIN st.cache[addr] :
        /\ addr \in DOMAIN st.modified
        /\ k \in st.modified[addr]}

\* The keys of one account that commit writes to its storage trie
CommitKeys(st, addr) ==
    {k \in DOMAIN st.cache[addr] :
        /\ addr \in DOMAIN st.modified
        /\ k \in st.modified[addr]
        /\ st.cache[addr][k] # TrieGet(AccountTrie(st.root_hash, addr), k)}

RECURSIVE UpdateAll(_, _, _)
UpdateAll(t, sub, keys) ==
    IF keys = {} THEN t
    ELSE LET k == CHOOSE x \in keys : TRUE
         IN  UpdateAll(TrieUpdate(t, k, sub[k]), sub, keys \ {k})

\* Mutant of CommitRoot: the new storage roots are not written back
CommitRoot_Stale(st) == st.root_hash

\* The account trie after the loop of commit
CommitRoot(st) ==
    LET touched == {a \in DOMAIN st.cache : CommitKeys(st, a) # {}}
    IN  [a \in DOMAIN st.root_hash \cup touched |->
            IF a \in touched
            THEN UpdateAll(AccountTrie(st.root_hash, a), st.cache[a],
                           CommitKeys(st, a))
            ELSE st.root_hash[a]]

\* Mutant of commit: cache and modified are not cleared
commit_KeepCache(st) ==
    [st EXCEPT !.root_hash = CommitRoot(st),
               !.journal = Append(@, [tag |-> "root", cache |-> st.cache,
                                      modified |-> st.modified,
                                      rt |-> st.root_hash])]

\* State.commit
commit(st) ==
    [st EXCEPT !.root_hash = CommitRoot(st),
               !.journal = Append(@, [tag |-> "root", cache |-> st.cache,
                                      modified |-> st.modified,
                                      rt |-> st.root_hash]),
               !.cache = EmptyMap,
               !.modified = EmptyMap]

\* State.root: the state afterwards; the value returned is its root_hash
root(st) == commit(st)

\* State.snapshot
snapshot(st) == Len(st.journal)

\* Mutant of RevertStep: a point entry is popped without restoring preval
RevertStep_NoRestore(st) ==
    LET e == st.journal[Len(st.journal)]
        j == SubSeq(st.journal, 1, Len(st.journal) - 1)
    IN  IF e.tag = "root"
        THEN [st EXCEPT !.journal = j, !.root_hash = e.rt,
                        !.cache = e.cache, !.modified = e.modified]
        ELSE [st EXCEPT !.journal = j]

\* One iteration of the loop of State.revert
RevertStep(st) ==
    LET e == st.journal[Len(st.journal)]
        j == SubSeq(st.journal, 1, Len(st.journal) - 1)
    IN  IF e.tag = "root"
        THEN [st EXCEPT !.journal = j, !.root_hash = e.rt,
                        !.cache = e.cache, !.modified = e.modified]
        ELSE [st EXCEPT !.journal = j,
                        !.cache[e.addr] = Put(@, e.key, e.preval)]

\* self.cache[addr][key] = preval raises KeyError when addr is not cached
RevertStepRaises(st) ==
    LET e == st.journal[Len(st.journal)]
    IN  e.tag = "set" /\ e.addr \notin DOMAIN st.cache

RECURSIVE revert(_, _)
revert(st, snap) ==
    IF Len(st.journal) > snap /\ ~RevertStepRaises(st)
    THEN revert(RevertStep(st), snap)
    ELSE st

RECURSIVE RevertRaises(_, _)
RevertRaises(st, snap) ==
    /\ Len(st.journal) > snap
    /\ \/ RevertStepRaises(st)
       \/ RevertRaises(RevertStep(st), snap)

\* State.clone: the parent afterwards (commit, then the commit of self.root)
CloneParent(st) == root(commit(st))

\* Mutant of clone: the parent is not committed first
clone_NoCommit(st) == NewState(st.root_hash, OverlayDB(st.db))

\* State.clone: the State returned
clone(st) == NewState(CloneParent(st).root_hash, OverlayDB(st.db))

\* ------------------------------------------------------------------------
\* The State under a driver that calls its methods in any order
\* ------------------------------------------------------------------------
\* s, c   the State under test and its clone
\* err    the exception that ended the process, "" while it runs
\* g      the process-wide memos transition_cache_map and eve_cache
\* h      history of the calls made, kept for the properties
VARIABLES s, c, err, g, h

vars == <<s, c, err, g, h>>

\* transition_cache_map = {} and eve_cache = {}
Globals0 == [transition_cache_map |-> EmptyMap, eve_cache |-> EmptyMap]

\* Addresses, keys and values the driver uses
StAddrs == {<<"A1", 0>>, <<"A2", 0>>}

StKeyArgs == {<<"int", 1>>, W(1)}

StLocs == {Canon(k) : k \in StKeyArgs}

StValArgs == {Empty, <<"int", 1>>}

\* The roots a State is constructed with
InitRoots == {Put(EmptyMap, <<"A1", 0>>, Put(EmptyMap, W(1), W(2)))}

NoState == [none |-> TRUE]

NoRoot == <<"none">>

\* What get_storage returns for every location, without calling it
View(st) == [p \in StAddrs \X StLocs |-> Lookup(st, p[1], p[2])]

NoView == [p \in StAddrs \X StLocs |-> Empty]

\* The driver's calls on the State s; h is the history a property needs
DoSetStorage(a, k, v) ==
    /\ err = "" /\ c = NoState
    /\ Len(s.journal) < MaxJournal
    /\ s' = set_storage(s, a, k, v)
    /\ UNCHANGED <<c, err, g>>

DoGetStorage(a, k) ==
    /\ err = "" /\ c = NoState
    /\ s' = get_storage(s, a, Canon(k))
    /\ UNCHANGED <<c, err, g>>

DoCommit ==
    /\ err = "" /\ c = NoState
    /\ Len(s.journal) < MaxJournal
    /\ s' = commit(s)
    /\ UNCHANGED <<c, err, g>>

DoRoot ==
    /\ err = "" /\ c = NoState
    /\ Len(s.journal) < MaxJournal
    /\ s' = root(s)
    /\ UNCHANGED <<c, err, g>>

DoSnapshot ==
    /\ err = "" /\ c = NoState
    /\ UNCHANGED <<s, c, err, g>>

DoRevert(t) ==
    /\ err = "" /\ c = NoState
    /\ s' = revert(s, t)
    /\ err' = IF RevertRaises(s, t) THEN "KeyError" ELSE ""
    /\ UNCHANGED <<c, g>>

InitDriver ==
    /\ \E r \in InitRoots : s = NewState(r, EphemDB)
    /\ c = NoState
    /\ err = ""
    /\ g = Globals0

\* The journal entries revert(t) pops
Popped(st, t) ==
    IF t < Len(st.journal) THEN SubSeq(st.journal, t + 1, Len(st.journal))
    ELSE <<>>

HasTag(j, tag) == \E i \in 1..Len(j) : j[i].tag = tag

\* ------------------------------------------------------------------------
\* SpecSnap: snapshot -> ... -> revert round trips
\*   tok      the token of a remembered snapshot() call, -1 if none
\*   view     what get_storage returned for every location at that call
\*   r0       the root read just before that call, NoRoot if none was
\*   atRoot   the last call was a read of root
\*   reverted "no", or what revert(tok) undid when it was the last call
\*            (other than get_storage) and only set_storage, get_storage,
\*            commit and root were called between snapshot and revert
\* ------------------------------------------------------------------------
SnapNone == [tok |-> -1, view |-> NoView, r0 |-> NoRoot, atRoot |-> FALSE,
             reverted |-> "no"]

SnapClean(x) == IF x.reverted = "no" THEN [x EXCEPT !.atRoot = FALSE]
                ELSE SnapNone

InitSnap == InitDriver /\ h = SnapNone

SnapSetStorage(a, k, v) == DoSetStorage(a, k, v) /\ h' = SnapClean(h)

SnapGetStorage(a, k) == DoGetStorage(a, k) /\ h' = [h EXCEPT !.atRoot = FALSE]

SnapCommit == DoCommit /\ h' = SnapClean(h)

SnapRoot == DoRoot /\ h' = [SnapClean(h) EXCEPT !.atRoot = TRUE]

SnapSnapshot ==
    /\ DoSnapshot
    /\ h' = [tok |-> snapshot(s), view |-> View(s),
             r0 |-> IF h.atRoot THEN <<"r", s.root_hash>> ELSE NoRoot,
             atRoot |-> FALSE, reverted |-> "no"]

SnapRevert(t) ==
    /\ DoRevert(t)
    /\ h' = IF h.tok = t /\ h.reverted = "no"
            THEN [h EXCEPT !.atRoot = FALSE,
                           !.reverted =
                               IF HasTag(Popped(s, t), "set")
                               THEN IF HasTag(Popped(s, t), "root")
                                    THEN "both" ELSE "set"
                               ELSE IF HasTag(Popped(s, t), "root")
                                    THEN "root" ELSE "none"]
            ELSE SnapNone

NextSnap ==
    \/ \E a \in StAddrs, k \in StKeyArgs, v \in StValArgs :
          SnapSetStorage(a, k, v)
    \/ \E a \in StAddrs, k \in StKeyArgs : SnapGetStorage(a, k)
    \/ SnapCommit
    \/ SnapRoot
    \/ SnapSnapshot
    \/ \E t \in 0..MaxJournal : SnapRevert(t)

SpecSnap == InitSnap /\ [][NextSnap]_vars

\* C1: after snapshot, any set_storage/get_storage/commit/root calls and
\* revert(token), revert completes and get_storage returns for every
\* location the value it returned when the snapshot was taken.
C1_RevertRestoresReads ==
    h.reverted # "no" => err = "" /\ View(s) = h.view

\* revert(token) has undone both set_storage calls and commits
C1_Witness == h.reverted = "both" /\ err = ""

\* C2: a root read just before the snapshot is what the next read of root
\* returns after revert(token), whatever was set and committed in between.
C2_RootRoundTrip ==
    (h.reverted # "no" /\ h.r0 # NoRoot) =>
        err = "" /\ <<"r", root(s).root_hash>> = h.r0

\* revert(token) has undone writes and commits and left a key flagged as
\* modified
C2_Witness ==
    /\ h.reverted = "both" /\ h.r0 # NoRoot /\ err = ""
    /\ DOMAIN s.modified # {}

\* ------------------------------------------------------------------------
\* SpecRead: set_storage, get_storage, snapshot, commit and root, no revert
\*   expect   the value last written to each location, or the value the
\*            initial trie holds for it
\* ------------------------------------------------------------------------
InitRead == InitDriver /\ h = [expect |-> View(s)]

ReadSetStorage(a, k, v) ==
    /\ DoSetStorage(a, k, v)
    /\ h' = [h EXCEPT !.expect[<<a, Canon(k)>>] = Canon(v)]

ReadGetStorage(a, k) == DoGetStorage(a, k) /\ UNCHANGED h

ReadCommit == DoCommit /\ UNCHANGED h

ReadRoot == DoRoot /\ UNCHANGED h

NextRead ==
    \/ \E a \in StAddrs, k \in StKeyArgs, v \in StValArgs :
          ReadSetStorage(a, k, v)
    \/ \E a \in StAddrs, k \in StKeyArgs : ReadGetStorage(a, k)
    \/ ReadCommit
    \/ ReadRoot

SpecRead == InitRead /\ [][NextRead]_vars

\* C3: without revert, get_storage returns the latest value written, or
\* the committed value of a location never written; commits change nothing.
C3_ReadsSeeLatestWrite == View(s) = h.expect

\* a write was committed, the cache is empty and the reads differ from the
\* initial trie's
C3_Witness ==
    /\ Len(s.journal) >= 2
    /\ s.journal[1].tag = "set"
    /\ s.journal[Len(s.journal)].tag = "root"
    /\ s.journal[Len(s.journal)].rt # s.root_hash
    /\ s.cache = EmptyMap

\* ------------------------------------------------------------------------
\* SpecRoot: reads of root among the other calls
\*   lastRoot   the hash the last read of root returned, NoRoot if there
\*              was none or set_storage was called since
\*   revSince   revert was called since that read
\*   atRoot     the last call was a read of root
\*   hadPrev    ... and an earlier read is remembered in lastRoot
\*   same       ... and it returned the same hash
\*   revBetween ... and revert was called between the two
\* ------------------------------------------------------------------------
RootNone == [lastRoot |-> NoRoot, revSince |-> FALSE, atRoot |-> FALSE,
             hadPrev |-> FALSE, same |-> FALSE, revBetween |-> FALSE]

RootOther(x) == [x EXCEPT !.atRoot = FALSE, !.hadPrev = FALSE,
                          !.same = FALSE, !.revBetween = FALSE]

InitRoot == InitDriver /\ h = RootNone

RootSetStorage(a, k, v) == DoSetStorage(a, k, v) /\ h' = RootNone

RootGetStorage(a, k) == DoGetStorage(a, k) /\ h' = RootOther(h)

RootCommit == DoCommit /\ h' = RootOther(h)

RootRead ==
    /\ DoRoot
    /\ h' = [lastRoot |-> <<"r", s'.root_hash>>, revSince |-> FALSE,
             atRoot |-> TRUE, hadPrev |-> (h.lastRoot # NoRoot),
             same |-> (h.lastRoot = <<"r", s'.root_hash>>),
             revBetween |-> h.revSince]

RootSnapshot == DoSnapshot /\ h' = RootOther(h)

RootRevert(t) ==
    /\ DoRevert(t)
    /\ h' = [RootOther(h) EXCEPT !.revSince = (h.lastRoot # NoRoot)]

NextRoot ==
    \/ \E a \in StAddrs, k \in StKeyArgs, v \in StValArgs :
          RootSetStorage(a, k, v)
    \/ \E a \in StAddrs, k \in StKeyArgs : RootGetStorage(a, k)
    \/ RootCommit
    \/ RootRead
    \/ RootSnapshot
    \/ \E t \in 0..MaxJournal : RootRevert(t)

SpecRoot == InitRoot /\ [][NextRoot]_vars

\* C4 as stated: two reads of root with no set_storage in between return
\* the same hash, and a read leaves cache and modified empty.
C4_Original ==
    h.atRoot => /\ (h.hadPrev => h.same)
                /\ s.cache = EmptyMap /\ s.modified = EmptyMap

\* C4 as amended: two reads of root with neither set_storage nor revert in
\* between return the same hash, and a read leaves cache and modified empty.
C4_RootIdempotent ==
    h.atRoot => /\ ((h.hadPrev /\ ~h.revBetween) => h.same)
                /\ s.cache = EmptyMap /\ s.modified = EmptyMap

\* a second read of root after committed writes, with no revert in between
C4_Witness ==
    /\ h.atRoot /\ h.hadPrev /\ ~h.revBetween /\ h.same
    /\ s.root_hash \notin InitRoots

\* ------------------------------------------------------------------------
\* SpecClone: a State is written, cloned, and then the clone is driven
\*   fresh   the last call was clone()
\*   pview   what get_storage of the parent returned for every location
\*           right after clone()
\*   proot   the parent's root right after clone()
\* ------------------------------------------------------------------------
CloneNone == [cloned |-> FALSE, fresh |-> FALSE, pview |-> NoView,
              proot |-> NoRoot]

InitClone == InitDriver /\ h = CloneNone

ParentSetStorage(a, k, v) ==
    /\ Len(s.journal) < MaxCloneOps
    /\ DoSetStorage(a, k, v)
    /\ UNCHANGED h

ParentGetStorage(a, k) == DoGetStorage(a, k) /\ UNCHANGED h

ParentCommit ==
    /\ Len(s.journal) < MaxCloneOps
    /\ DoCommit
    /\ UNCHANGED h

Clone ==
    /\ err = "" /\ ~h.cloned
    /\ s' = CloneParent(s)
    /\ c' = clone(s)
    /\ h' = [cloned |-> TRUE, fresh |-> TRUE, pview |-> View(s'),
             proot |-> <<"r", root(s').root_hash>>]
    /\ UNCHANGED <<err, g>>

\* The clone may write while parent and clone stay within MaxCloneOps
\* (the parent's journal holds the two commit markers of clone())
CloneRoom == Len(s.journal) - 2 + Len(c.journal) < MaxCloneOps

CloneSetStorage(a, k, v) ==
    /\ err = "" /\ h.cloned /\ CloneRoom
    /\ c' = set_storage(c, a, k, v)
    /\ h' = [h EXCEPT !.fresh = FALSE]
    /\ UNCHANGED <<s, err, g>>

CloneGetStorage(a, k) ==
    /\ err = "" /\ h.cloned
    /\ c' = get_storage(c, a, Canon(k))
    /\ h' = [h EXCEPT !.fresh = FALSE]
    /\ UNCHANGED <<s, err, g>>

CloneRoot ==
    /\ err = "" /\ h.cloned /\ CloneRoom
    /\ c' = root(c)
    /\ h' = [h EXCEPT !.fresh = FALSE]
    /\ UNCHANGED <<s, err, g>>

CloneRevert(t) ==
    /\ err = "" /\ h.cloned
    /\ c' = revert(c, t)
    /\ err' = IF RevertRaises(c, t) THEN "KeyError" ELSE ""
    /\ h' = [h EXCEPT !.fresh = FALSE]
    /\ UNCHANGED <<s, g>>

NextClone ==
    \/ \E a \in StAddrs, k \in StKeyArgs, v \in StValArgs :
          ParentSetStorage(a, k, v)
    \/ \E a \in StAddrs, k \in StKeyArgs : ParentGetStorage(a, k)
    \/ ParentCommit
    \/ Clone
    \/ \E a \in StAddrs, k \in StKeyArgs, v \in StValArgs :
          CloneSetStorage(a, k, v)
    \/ \E a \in StAddrs, k \in StKeyArgs : CloneGetStorage(a, k)
    \/ CloneRoot
    \/ \E t \in 0..MaxCloneOps : CloneRevert(t)

SpecClone == InitClone /\ [][NextClone]_vars

\* C5: a clone starts with the parent's committed root and the parent's
\* reads, and nothing done to the clone changes the parent's root or reads.
C5_CloneIsolation ==
    h.cloned =>
        /\ h.fresh => /\ root(c).root_hash = root(s).root_hash
                      /\ View(c) = View(s)
        /\ View(s) = h.pview
        /\ <<"r", root(s).root_hash>> = h.proot

\* the clone has committed writes that the parent does not see
C5_Witness ==
    /\ h.cloned
    /\ c.root_hash # s.root_hash
    /\ View(c) # View(s)
    /\ c.cache = EmptyMap

\* ------------------------------------------------------------------------
\* config: shards, gas limit, well-known addresses and slots (scaled down)
\* ------------------------------------------------------------------------
MAXSHARDS == 4

GASLIMIT == 10

ADDR_ZERO == <<"", 0>>

NULL_SENDER == <<"", 0>>

\* utils.shardify, utils.get_shard, utils.match_shard: an address is
\* <<base, shard>>
shardify(addr, shard) == <<addr[1], shard>>

get_shard(addr) == addr[2]

match_shard(addr, other) == <<addr[1], other[2]>>

\* None and a present value, for optional arguments
None == <<>>

Some(x) == <<x>>

\* serenity_transactions.Transaction: the fields this file reads
Transaction(addr, code, data, gas, exec_gas, intrinsic_gas, lb, rb) ==
    [addr |-> addr, code |-> code, data |-> data, gas |-> gas,
     exec_gas |-> exec_gas, intrinsic_gas |-> intrinsic_gas,
     left_bound |-> lb, right_bound |-> rb]

\* sha3(rlp.encode(txgroup)), a collision-free hash of the group
GroupHash(txgroup) == <<"gh", txgroup>>

\* class TransactionGroupSummary: the four serialized fields
TransactionGroupSummary(gas_limit, lb, rb, transaction_hash) ==
    [gas_limit |-> gas_limit, left_bound |-> lb, right_bound |-> rb,
     transaction_hash |-> transaction_hash]

\* sha3(rlp.encode(summaries)): intrinsic_gas is not a serialized field
SummariesRoot(summaries) ==
    <<"sr", [i \in 1..Len(summaries) |->
                TransactionGroupSummary(summaries[i].gas_limit,
                    summaries[i].left_bound, summaries[i].right_bound,
                    summaries[i].transaction_hash)]>>

\* class BlockHeader
BlockHeader(number, txroot, proposer, sig) ==
    [number |-> number, txroot |-> txroot, proposer |-> proposer,
     sig |-> sig]

RECURSIVE SumIntrinsic(_)
SumIntrinsic(xs) ==
    IF xs = <<>> THEN 0 ELSE xs[1].intrinsic_gas + SumIntrinsic(Tail(xs))

\* s.intrinsic_gas = sum([tx.intrinsic_gas for tx in g])
WithIntrinsic(summ, grp) ==
    [gas_limit |-> summ.gas_limit, left_bound |-> summ.left_bound,
     right_bound |-> summ.right_bound,
     transaction_hash |-> summ.transaction_hash,
     intrinsic_gas |-> SumIntrinsic(grp)]

\* a % b == 0 in Python; b = 0 raises ZeroDivisionError
PyModIsZero(a, b) ==
    /\ b # 0
    /\ a % (IF b < 0 THEN 0 - b ELSE b) = 0

MinOf(a, b) == IF a < b THEN a ELSE b

\* Block.__init__, auto-pack mode: the asserts on one transaction
AutoTxOk(tx) ==
    /\ PyModIsZero(tx.left_bound, tx.right_bound - tx.left_bound)
    /\ 0 <= tx.left_bound /\ tx.left_bound < tx.right_bound
    /\ tx.right_bound <= MAXSHARDS

\* Block.__init__, explicit mode: the asserts of the loop on pair i
ExplicitPairOk(summaries, groups, i) ==
    LET summ == summaries[i]
        grp == groups[i]
        prevright == IF i = 1 THEN 0 ELSE summaries[i - 1].right_bound
    IN  /\ summ.transaction_hash = GroupHash(grp)
        /\ PyModIsZero(summ.left_bound, summ.right_bound - summ.left_bound)
        /\ 0 <= prevright /\ prevright <= summ.left_bound
        /\ summ.left_bound < summ.right_bound
        /\ summ.right_bound <= MAXSHARDS
        /\ \A j \in 1..Len(grp) :
              /\ summ.left_bound <= grp[j].left_bound
              /\ grp[j].left_bound < grp[j].right_bound
              /\ grp[j].right_bound <= summ.right_bound

\* Block.__init__: whether construction completes.  zip() pairs summaries
\* and groups up to the shorter list; a summary left without a group has
\* no intrinsic_gas and the sum over summaries raises AttributeError.
BlockAccepted(a) ==
    IF a.transaction_groups = None \/ a.summaries = None \/ a.header = None
    THEN /\ a.transaction_groups = None /\ a.summaries = None
         /\ a.header = None
         /\ \A j \in 1..Len(a.transactions) : AutoTxOk(a.transactions[j])
         /\ SumIntrinsic(a.transactions) < GASLIMIT
    ELSE LET summaries == a.summaries[1]
             groups == a.transaction_groups[1]
             n == MinOf(Len(summaries), Len(groups))
         IN  /\ \A i \in 1..n : ExplicitPairOk(summaries, groups, i)
             /\ Len(summaries) <= Len(groups)
             /\ SumIntrinsic([i \in 1..Len(summaries) |->
                    WithIntrinsic(summaries[i], groups[i])]) < GASLIMIT
             /\ a.header[1].txroot = SummariesRoot(summaries)

\* Block.__init__: the Block constructed
Block(a) ==
    IF a.header = None
    THEN LET summ == WithIntrinsic(
                 TransactionGroupSummary(GASLIMIT, 0, MAXSHARDS,
                                         GroupHash(a.transactions)),
                 a.transactions)
         IN  [header |-> BlockHeader(a.number, SummariesRoot(<<summ>>),
                                     a.proposer, Empty),
              summaries |-> <<summ>>,
              transaction_groups |-> <<a.transactions>>]
    ELSE [header |-> a.header[1],
          summaries |-> [i \in 1..Len(a.summaries[1]) |->
                            WithIntrinsic(a.summaries[1][i],
                                          a.transaction_groups[1][i])],
          transaction_groups |-> a.transaction_groups[1]]

\* Arguments of Block(...)
AutoArgs(transactions, number, proposer) ==
    [header |-> None, transactions |-> transactions,
     transaction_groups |-> None, summaries |-> None, number |-> number,
     proposer |-> proposer]

ExplicitArgs(header, summaries, groups) ==
    [header |-> Some(header), transactions |-> <<>>,
     transaction_groups |-> Some(groups), summaries |-> Some(summaries),
     number |-> 0, proposer |-> ADDR_ZERO]

\* ------------------------------------------------------------------------
\* SpecBlock: Block(...) applied to candidate arguments
\* ------------------------------------------------------------------------
\* Bounds tried for summaries and transactions
Bnds == 0..(MAXSHARDS + 1)

\* A transaction that only carries bounds and intrinsic gas
BoundsTx(lb, rb, ig) == Transaction(<<"A", lb>>, <<>>, <<>>, 1, 1, ig, lb, rb)

\* Explicit arguments whose hashes match
Matching(limits, bounds, groups) ==
    LET summaries == [i \in 1..Len(bounds) |->
                        TransactionGroupSummary(limits[i], bounds[i][1],
                            bounds[i][2], GroupHash(groups[i]))]
    IN  ExplicitArgs(BlockHeader(0, SummariesRoot(summaries), ADDR_ZERO,
                                 Empty),
                     summaries, groups)

CandidateGroups ==
    {<<>>} \cup {<<BoundsTx(l, r, 1)>> : l \in Bnds, r \in Bnds}

CandidateArgs ==
    \* one summary, any bounds, any transaction bounds
    {Matching(<<gl>>, <<<<l, r>>>>, <<grp>>) :
        gl \in {0, GASLIMIT}, l \in Bnds, r \in Bnds, grp \in CandidateGroups}
    \cup
    \* two summaries, any bounds
    {Matching(<<GASLIMIT, GASLIMIT>>, <<<<l1, r1>>, <<l2, r2>>>>,
              <<<<>>, <<>>>>) :
        l1 \in Bnds, r1 \in Bnds, l2 \in Bnds, r2 \in Bnds}
    \cup
    \* intrinsic gas at the limit, a summary without a group, wrong hashes
    {Matching(<<GASLIMIT>>, <<<<0, 1>>>>, <<<<BoundsTx(0, 1, GASLIMIT)>>>>),
     ExplicitArgs(BlockHeader(0, SummariesRoot(<<>>), ADDR_ZERO, Empty),
         <<TransactionGroupSummary(GASLIMIT, 0, 1, GroupHash(<<>>))>>,
         <<>>),
     ExplicitArgs(BlockHeader(0, SummariesRoot(<<>>), ADDR_ZERO, Empty),
         <<TransactionGroupSummary(GASLIMIT, 0, 1, GroupHash(<<>>))>>,
         <<<<>>>>),
     ExplicitArgs(BlockHeader(0,
             SummariesRoot(<<TransactionGroupSummary(GASLIMIT, 0, 1,
                                 GroupHash(<<>>))>>), ADDR_ZERO, Empty),
         <<TransactionGroupSummary(GASLIMIT, 0, 1, GroupHash(<<>>))>>,
         <<<<BoundsTx(0, 1, 1)>>>>),
     \* header without summaries and groups
     [header |-> Some(BlockHeader(0, SummariesRoot(<<>>), ADDR_ZERO, Empty)),
      transactions |-> <<>>, transaction_groups |-> None,
      summaries |-> None, number |-> 0, proposer |-> ADDR_ZERO]}
    \cup
    \* auto-pack
    {AutoArgs(txs, 0, ADDR_ZERO) :
        txs \in {<<>>} \cup
                {<<BoundsTx(l, r, ig)>> :
                    l \in Bnds, r \in Bnds, ig \in {1, GASLIMIT}} \cup
                {<<BoundsTx(0, MAXSHARDS, 1), BoundsTx(l, r, 1)>> :
                    l \in Bnds, r \in Bnds}}

NoBlock == [none |-> TRUE]

InitBlock ==
    /\ s = NewState(BLANK_ROOT, EphemDB)
    /\ c = NoState
    /\ err = ""
    /\ g = Globals0
    /\ \E a \in CandidateArgs :
          h = [args |-> a, built |-> FALSE, block |-> NoBlock]

\* Block(**args): the block, or the exception of a failed check
ConstructBlock ==
    /\ err = "" /\ ~h.built
    /\ IF BlockAccepted(h.args)
       THEN h' = [h EXCEPT !.built = TRUE, !.block = Block(h.args)] /\ err' = ""
       ELSE h' = h /\ err' = "Exception"
    /\ UNCHANGED <<s, c, g>>

NextBlock == ConstructBlock

SpecBlock == InitBlock /\ [][NextBlock]_vars

\* R - L is a power of two and L mod (R - L) = 0
IsPowerOfTwo(n) == \E e \in 0..MAXSHARDS : n = 2 ^ e

TreeAligned(lb, rb) ==
    /\ lb < rb /\ IsPowerOfTwo(rb - lb) /\ lb % (rb - lb) = 0

\* C9: every Block that construction accepts has, for each summary and its
\* group, a tree-aligned range within [0, MAXSHARDS], summaries disjoint
\* and sorted, and every transaction's bounds inside its summary's.
C9_AcceptedBlocksAligned ==
    h.built =>
        \A i \in 1..MinOf(Len(h.block.summaries),
                          Len(h.block.transaction_groups)) :
            LET summ == h.block.summaries[i]
                grp == h.block.transaction_groups[i]
            IN  /\ TreeAligned(summ.left_bound, summ.right_bound)
                /\ 0 <= summ.left_bound /\ summ.right_bound <= MAXSHARDS
                /\ i > 1 => h.block.summaries[i - 1].right_bound
                                <= summ.left_bound
                /\ \A j \in 1..Len(grp) :
                      /\ summ.left_bound <= grp[j].left_bound
                      /\ grp[j].left_bound < grp[j].right_bound
                      /\ grp[j].right_bound <= summ.right_bound

\* ------------------------------------------------------------------------
\* Execution.  A world w is [st, eve, tcm, err]: the State, eve_cache,
\* transition_cache_map and the exception raised so far ("" if none).
\* ------------------------------------------------------------------------
BLKNUMBER == <<"BLKNUMBER", 0>>

BLOCKHASHES == <<"BLOCKHASHES", 0>>

STATEROOTS == <<"STATEROOTS", 0>>

PROPOSER == <<"PROPOSER", 0>>

RNGSEEDS == <<"RNGSEEDS", 0>>

CASPER == <<"CASPER", 0>>

EXECUTION_STATE == <<"EXECUTION_STATE", 0>>

LOG == <<"LOG", 0>>

ETHER == <<"ETHER", 0>>

GAS_REMAINING == 0

TXINDEX == 1

TXGAS == 2

\* 2 ** 255, the default override_gas
TT255 == 128

\* 2 ** 64, the part of an RNG seed that holds the validator count,
\* scaled down to 2 ** 4
TT64 == 16

World(st, eve, tcm, e) == [st |-> st, eve |-> eve, tcm |-> tcm, err |-> e]

\* rlp.encode of a list of integers encoded with encode_int
RlpList(items) == <<"l", items>>

RLPEMPTYLIST == RlpList(<<>>)

\* Mutant of RlpInsertFirst: the item is put last
RlpInsertFirst_AtEnd(rlpdata, x) == RlpList(rlpdata[2] \o <<x>>)

\* rlp.insert(rlpdata, 0, encode_int(x))
RlpInsertFirst(rlpdata, x) == RlpList(<<x>> \o rlpdata[2])

\* sha3(code)
CodeHash(code) == <<"h", code>>

\* vm.Message
Message(sender, to, value, gas, data, lb, rb) ==
    [sender |-> sender, to |-> to, value |-> value, gas |-> gas,
     data |-> data, transfers_value |-> TRUE,
     left_bound |-> lb, right_bound |-> rb]

\* ext.get_storage: VMExt reads the State, EmptyVMExt returns ''
ExtValue(w, ext, addr, k) ==
    IF ext = "state" THEN Lookup(w.st, addr, Canon(k)) ELSE Empty

ExtGet(w, ext, addr, k) ==
    IF ext = "state"
    THEN [w EXCEPT !.st = get_storage(w.st, addr, Canon(k))]
    ELSE w

\* ext.set_storage: VMExt writes the State, EmptyVMExt discards the write
ExtSet(w, ext, addr, k, v) ==
    IF ext = "state"
    THEN [w EXCEPT !.st = set_storage(w.st, addr, k, v)]
    ELSE w

\* cache_key = msg.sender + msg.to + str(msg.value)
\*             + msg.data.extract_all() + code
CacheKey(msg, code) == <<msg.sender, msg.to, msg.value>> \o msg.data \o code

\* The result of a call: (res, gas, dat) and the world afterwards
Result(w, res, gas, dat) == [w |-> w, res |-> res, gas |-> gas, dat |-> dat]

\* Mutant of Transfer: the recipient's balance is read before the debit
Transfer_StaleCredit(w, ext, msg) ==
    LET sender_ether == match_shard(ETHER, msg.sender)
        recipient_ether == match_shard(ETHER, msg.to)
        bal == big_endian_to_int(ExtValue(w, ext, sender_ether, msg.sender))
        w1 == ExtGet(w, ext, sender_ether, msg.sender)
        w2 == ExtSet(w1, ext, sender_ether, msg.sender,
                     <<"int", bal - msg.value>>)
        w3 == ExtSet(w2, ext, recipient_ether, msg.to,
                     <<"int", big_endian_to_int(ExtValue(w1, ext,
                                  recipient_ether, msg.to)) + msg.value>>)
    IN  IF ~msg.transfers_value THEN [ok |-> TRUE, w |-> w]
        ELSE IF bal < msg.value THEN [ok |-> FALSE, w |-> w1]
        ELSE IF msg.value # 0 THEN [ok |-> TRUE, w |-> w3]
        ELSE [ok |-> TRUE, w |-> w1]

\* apply_msg, lines 420..426: the value transfer.  ok is FALSE when the
\* sender's balance is too low.
Transfer(w, ext, msg) ==
    LET sender_ether == match_shard(ETHER, msg.sender)
        recipient_ether == match_shard(ETHER, msg.to)
        bal == big_endian_to_int(ExtValue(w, ext, sender_ether, msg.sender))
        w1 == ExtGet(w, ext, sender_ether, msg.sender)
        w2 == ExtSet(w1, ext, sender_ether, msg.sender,
                     <<"int", bal - msg.value>>)
        w3 == ExtSet(w2, ext, recipient_ether, msg.to,
                     <<"int", big_endian_to_int(ExtValue(w2, ext,
                                  recipient_ether, msg.to)) + msg.value>>)
    IN  IF ~msg.transfers_value THEN [ok |-> TRUE, w |-> w]
        ELSE IF bal < msg.value THEN [ok |-> FALSE, w |-> w1]
        ELSE IF msg.value # 0 THEN [ok |-> TRUE, w |-> w3]
        ELSE [ok |-> TRUE, w |-> w1]

\* The log slot of the running transaction: (LOG, TXINDEX) of the shard
\* the message names
LogSlot(w, ext, msg) ==
    <<"int", big_endian_to_int(ExtValue(w, ext,
                 shardify(EXECUTION_STATE, msg.left_bound), W(TXINDEX)))>>

\* rlp.append(rlpdata, x)
RlpAppend(rlpdata, x) == RlpList(rlpdata[2] \o <<x>>)

\* The LOG instruction: x is appended to the list in the log slot
ExtLog(w, ext, msg, x) ==
    ExtSet(w, ext, shardify(LOG, msg.left_bound), LogSlot(w, ext, msg),
           RlpAppend(ExtValue(w, ext, shardify(LOG, msg.left_bound),
                              LogSlot(w, ext, msg)), x))

RECURSIVE apply_msg(_, _, _, _)
RECURSIVE Exec(_, _, _, _, _, _)

\* The gas a static call forwards: the first byte of the call data
CallGas(msg) == IF msg.data = <<>> THEN 0 ELSE msg.data[1][2]

\* After a call returned r: store its status, go on with the gas kept plus
\* the gas the call gave back
AfterStatic(r, ext, msg, code, pc, kept, k) ==
    Exec(ExtSet(r.w, ext, msg.to, k, <<"int", r.res>>), ext, msg, code,
         pc + 1, kept + r.gas)

\* fastvm.vm_execute on a small instruction set; every instruction costs 1
\* gas and running out of gas fails the call:
\*   <<"SSTORE", k, v>>       storage[msg.to][k] = v
\*   <<"SCALL", to, code, k>> static_msg to `to` running `code` with the gas
\*                            given by the first byte of the call data, then
\*                            storage[msg.to][k] = the status returned
\*   <<"CALL", to, value, code, k>>
\*                            msg to `to` running `code`, sending `value`
\*                            and all the gas left, then
\*                            storage[msg.to][k] = the status returned
\*   <<"LOG", x>>             x is appended to the log of the transaction;
\*                            the call fails when the slot holds no list
\*   <<"b", n>>               a byte that does nothing
\*   <<"FAIL">>               the call fails
\*   <<"RETURN", d>>          the call returns d
Exec(w, ext, msg, code, pc, gas) ==
    IF pc > Len(code) THEN Result(w, 1, gas, <<>>)
    ELSE IF gas < 1 THEN Result(w, 0, 0, <<>>)
    ELSE LET op == code[pc]
         IN  CASE op[1] = "SSTORE" ->
                    Exec(ExtSet(w, ext, msg.to, op[2], op[3]), ext, msg,
                         code, pc + 1, gas - 1)
               [] op[1] = "SCALL" ->
                    AfterStatic(
                        apply_msg(w, "empty",
                            Message(msg.to, op[2], 0,
                                    MinOf(CallGas(msg), gas - 1), <<>>,
                                    msg.left_bound, msg.right_bound),
                            op[3]),
                        ext, msg, code, pc, gas - 1 - MinOf(CallGas(msg),
                                                            gas - 1),
                        op[4])
               [] op[1] = "CALL" ->
                    AfterStatic(
                        apply_msg(w, ext,
                            Message(msg.to, op[2], op[3], gas - 1, <<>>,
                                    msg.left_bound, msg.right_bound),
                            op[4]),
                        ext, msg, code, pc, 0, op[5])
               [] op[1] = "LOG" ->
                    IF ext = "empty"
                    THEN Exec(w, ext, msg, code, pc + 1, gas - 1)
                    ELSE IF ExtValue(w, ext, shardify(LOG, msg.left_bound),
                                     LogSlot(w, ext, msg))[1] # "l"
                    THEN Result(w, 0, 0, <<>>)
                    ELSE Exec(ExtLog(w, ext, msg, op[2]), ext, msg, code,
                              pc + 1, gas - 1)
               [] op[1] = "b" -> Exec(w, ext, msg, code, pc + 1, gas - 1)
               [] op[1] = "FAIL" -> Result(w, 0, 0, <<>>)
               [] OTHER -> Result(w, 1, gas - 1, op[2])

\* vm.vm_execute(ext, msg, code)
vm_execute(w, ext, msg, code) == Exec(w, ext, msg, code, 1, msg.gas)

\* apply_msg, lines 434..439: revert on failure.  EmptyVMExt._state is a
\* State of its own that nothing writes, so reverting it does nothing.
Reverted_KeepsWrites(r, ext, snap) == r.w

Reverted(r, ext, snap) ==
    IF r.res = 0 /\ ext = "state"
    THEN [r.w EXCEPT !.st = revert(r.w.st, snap)]
    ELSE r.w

\* apply_msg, lines 444..445: (res, gas if res else 0, dat)
Outcome(r) == <<r.res, IF r.res # 0 THEN r.gas ELSE 0, r.dat>>

\* apply_msg, lines 434..445, given the result r of the VM
AfterExecute(r, ext, snap, cache_key) ==
    Result([Reverted(r, ext, snap) EXCEPT
                !.eve = Put(@, cache_key, Outcome(r))],
           Outcome(r)[1], Outcome(r)[2], Outcome(r)[3])

\* apply_msg, lines 420..432, given the result t of the value transfer
AfterTransfer(t, ext, msg, code, snap, cache_key) ==
    IF ~t.ok THEN Result(t.w, 1, msg.gas, <<>>)
    ELSE AfterExecute(vm_execute(t.w, ext, msg, code), ext, snap, cache_key)

\* apply_msg(ext, msg, code)
apply_msg(w, ext, msg, code) ==
    IF ext = "empty" /\ CacheKey(msg, code) \in DOMAIN w.eve
    THEN Result(w, w.eve[CacheKey(msg, code)][1],
                w.eve[CacheKey(msg, code)][2], w.eve[CacheKey(msg, code)][3])
    ELSE AfterTransfer(Transfer(w, ext, msg), ext, msg, code,
                       snapshot(w.st), CacheKey(msg, code))

\* state.set_storage and state.get_storage on the world's State
WSet(w, addr, k, v) == [w EXCEPT !.st = set_storage(w.st, addr, k, v)]

WGet(w, addr, k) == [w EXCEPT !.st = get_storage(w.st, addr, Canon(k))]

Raise(w, e) == [w EXCEPT !.err = e]

\* initialize_with_gas_limit(state, gas_limit, left_bound)
initialize_with_gas_limit(w, gas_limit, left_bound) ==
    WSet(w, shardify(EXECUTION_STATE, left_bound), <<"int", GAS_REMAINING>>,
         <<"int", gas_limit>>)

\* get_code: the code whose hash the account holds; state.db.get raises
\* KeyError for a hash the database does not hold
get_code(st, address) ==
    LET codehash == Lookup(st, address, Empty)
    IN  IF codehash = Empty THEN <<>> ELSE codehash[2]

GetCodeRaises(st, address) ==
    LET codehash == Lookup(st, address, Empty)
    IN  /\ codehash # Empty
        /\ \/ codehash[1] # "h"
           \/ codehash[2] \notin st.db.kv \cup st.db.under

\* put_code(state, address, code)
put_code(w, address, code) ==
    WSet([w EXCEPT !.st.db.kv = @ \cup {code}], address, Empty,
         CodeHash(code))

\* Mutant of SkipWrites: the skipped transaction also forfeits the gas left
SkipWrites_ChargesGas(w, exstate, log, txindex, status) ==
    WSet(WSet(WSet(w, log, <<"int", txindex>>, RlpList(<<status>>)),
              exstate, <<"int", TXINDEX>>, <<"int", txindex + 1>>),
         exstate, <<"int", GAS_REMAINING>>, <<"int", 0>>)

\* tx_state_transition, lines 324..325, 330..331 and 344..345: the log
\* [status] and TXINDEX + 1
SkipWrites(w, exstate, log, txindex, status) ==
    WSet(WSet(w, log, <<"int", txindex>>, RlpList(<<status>>)),
         exstate, <<"int", TXINDEX>>, <<"int", txindex + 1>>)

\* Mutant of GasAfter: the gas the message left is not given back
GasAfter_NoRefund(gas_remaining, exec_gas, msg_gas_remained) ==
    gas_remaining - exec_gas

\* tx_state_transition, line 359: the new value of GAS_REMAINING
GasAfter(gas_remaining, exec_gas, msg_gas_remained) ==
    gas_remaining - exec_gas + msg_gas_remained

\* What a call of tx_state_transition did: the world afterwards, the path
\* taken and the gas the execution message left
TxResult(w, kind, rem) == [w |-> w, kind |-> kind, rem |-> rem]

\* The result of a transaction whose execution message returned e
TxExecuted(w, e) ==
    [w |-> w, kind |-> "executed", rem |-> e.gas, res |-> e.res]

\* tx_state_transition is modelled in steps; each step takes what the
\* lines before it computed: x the world so far, ex and lg the addresses
\* _EXSTATE and _LOG, txindex and gas_remaining the values read at lines
\* 317 and 319.

\* Mutant of TxLog: TXINDEX is left as the VM left it
TxLog_KeepsIndex(x, e, ex, lg, txindex) ==
    IF Lookup(x.st, lg, W(txindex))[1] # "l"
    THEN TxResult(Raise(x, "DecodingError"), "raised", 0)
    ELSE TxExecuted(
             WSet(WGet(x, lg, <<"int", txindex>>), lg, <<"int", txindex>>,
                  RlpInsertFirst(Lookup(x.st, lg, W(txindex)),
                                 IF e.res # 0 THEN 2 ELSE 1)),
             e)

\* Lines 361..365, x being the world after line 359 and e the result of the
\* execution message
TxLog(x, e, ex, lg, txindex) ==
    IF Lookup(x.st, lg, W(txindex))[1] # "l"
    THEN TxResult(Raise(x, "DecodingError"), "raised", 0)
    ELSE TxExecuted(
             WSet(WSet(WGet(x, lg, <<"int", txindex>>), lg,
                       <<"int", txindex>>,
                       RlpInsertFirst(Lookup(x.st, lg, W(txindex)),
                                      IF e.res # 0 THEN 2 ELSE 1)),
                  ex, <<"int", TXINDEX>>, <<"int", txindex + 1>>),
             e)

\* Lines 357..365, e being the result of the execution message
TxSettle(e, tx, ex, lg, txindex, gas_remaining, execution_start_gas) ==
    IF ~(0 <= e.gas /\ e.gas <= execution_start_gas
         /\ execution_start_gas <= tx.exec_gas)
    THEN TxResult(Raise(e.w, "AssertionError"), "raised", 0)
    ELSE TxLog(WSet(e.w, ex, <<"int", GAS_REMAINING>>,
                    <<"int", GasAfter(gas_remaining, tx.exec_gas, e.gas)>>),
               e, ex, lg, txindex)

\* Lines 352..365
TxExecute(x, tx, ex, lg, txindex, gas_remaining, execution_start_gas) ==
    IF Lookup(x.st, lg, W(txindex)) # RLPEMPTYLIST
    THEN TxResult(Raise(WGet(x, lg, <<"int", txindex>>), "AssertionError"),
                  "raised", 0)
    ELSE IF GetCodeRaises(x.st, tx.addr)
    THEN TxResult(Raise(WGet(WGet(x, lg, <<"int", txindex>>), tx.addr,
                             Empty), "KeyError"), "raised", 0)
    ELSE TxSettle(
             apply_msg(WGet(WGet(x, lg, <<"int", txindex>>), tx.addr, Empty),
                       "state",
                       Message(NULL_SENDER, tx.addr, 0, execution_start_gas,
                               tx.data, 0, MAXSHARDS),
                       get_code(x.st, tx.addr)),
             tx, ex, lg, txindex, gas_remaining, execution_start_gas)

\* Mutant of TxDeployed: a failed deployment is charged its gas
TxDeployed_Charged(d, tx, ex, lg, txindex, gas_remaining) ==
    IF d.res = 0
    THEN TxResult(WSet(SkipWrites(d.w, ex, lg, txindex, 1), ex,
                       <<"int", GAS_REMAINING>>,
                       <<"int", gas_remaining - tx.exec_gas>>),
                  "failed_deploy", 0)
    ELSE TxExecute(put_code(d.w, tx.addr, d.dat), tx, ex, lg, txindex,
                   gas_remaining, d.gas)

\* Lines 343..365, d being the result of the deployment message
TxDeployed(d, tx, ex, lg, txindex, gas_remaining) ==
    IF d.res = 0
    THEN TxResult(SkipWrites(d.w, ex, lg, txindex, 1), "failed_deploy", 0)
    ELSE TxExecute(put_code(d.w, tx.addr, d.dat), tx, ex, lg, txindex,
                   gas_remaining, d.gas)

\* Lines 339..365
TxRun(x, tx, left_bound, right_bound, override_gas, ex, lg, txindex, gas_remaining) ==
    IF tx.code # <<>> /\ Lookup(x.st, tx.addr, Empty) = Empty
    THEN TxDeployed(
             apply_msg(WGet(x, tx.addr, Empty), "state",
                       Message(NULL_SENDER, tx.addr, 0,
                               MinOf(tx.exec_gas, override_gas), <<>>,
                               left_bound, right_bound),
                       tx.code),
             tx, ex, lg, txindex, gas_remaining)
    ELSE TxExecute(IF tx.code # <<>> THEN WGet(x, tx.addr, Empty) ELSE x,
                   tx, ex, lg, txindex, gas_remaining,
                   MinOf(tx.exec_gas, override_gas))

\* Lines 321..365
TxChecked(x, tx, left_bound, right_bound, override_gas, ex, lg, txindex, gas_remaining) ==
    IF gas_remaining - tx.exec_gas < 0
    THEN TxResult(SkipWrites(x, ex, lg, txindex, 0), "skip_gas", 0)
    ELSE IF ~(left_bound <= get_shard(tx.addr)
              /\ get_shard(tx.addr) < right_bound)
    THEN TxResult(SkipWrites(x, ex, lg, txindex, 0), "skip_range", 0)
    ELSE TxRun(WSet(WSet(x, ex, <<"int", TXGAS>>, encode_int32(tx.gas)),
                    lg, <<"int", txindex>>, RLPEMPTYLIST),
               tx, left_bound, right_bound, override_gas, ex, lg, txindex,
               gas_remaining)

\* tx_state_transition(state, tx, left_bound, right_bound, override_gas)
tx_state_transition(w, tx, left_bound, right_bound, override_gas) ==
    TxChecked(WGet(WGet(w, shardify(EXECUTION_STATE, left_bound),
                        <<"int", TXINDEX>>),
                   shardify(EXECUTION_STATE, left_bound),
                   <<"int", GAS_REMAINING>>),
              tx, left_bound, right_bound, override_gas,
              shardify(EXECUTION_STATE, left_bound),
              shardify(LOG, left_bound),
              big_endian_to_int(Lookup(w.st,
                  shardify(EXECUTION_STATE, left_bound), W(TXINDEX))),
              big_endian_to_int(Lookup(w.st,
                  shardify(EXECUTION_STATE, left_bound), W(GAS_REMAINING))))

\* block.hash = sha3(rlp.encode(header)), a collision-free hash
BlockHash(block) == <<"bh", block.header>>

\* big_endian_to_int(sha3(prevseed + blkproposer)): some fixed function
\* into the 32-byte range
Sha3Int(prevseed, blkproposer) ==
    (big_endian_to_int(prevseed) * 31 + blkproposer[2] * 17
        + (IF blkproposer = ADDR_ZERO THEN 7 ELSE 99)) % TT256

\* GAS_REMAINING of the group, as tx_state_transition reads it
GasLeft(st, left_bound) ==
    big_endian_to_int(Lookup(st, shardify(EXECUTION_STATE, left_bound),
                             W(GAS_REMAINING)))

\* TXINDEX of the group, as tx_state_transition reads it
IndexOf(st, left_bound) ==
    big_endian_to_int(Lookup(st, shardify(EXECUTION_STATE, left_bound),
                             W(TXINDEX)))

\* What one transaction of a group did: the path taken, TXINDEX when it
\* started, its log slot when it returned, GAS_REMAINING before and after,
\* the gas charged
TxEntry(w, r, tx, left_bound) ==
    [kind |-> r.kind,
     index |-> IndexOf(w.st, left_bound),
     log |-> Lookup(r.w.st, shardify(LOG, left_bound),
                    W(IndexOf(w.st, left_bound))),
     before |-> GasLeft(w.st, left_bound),
     after |-> GasLeft(r.w.st, left_bound),
     charged |-> IF r.kind = "executed" THEN tx.exec_gas - r.rem ELSE 0]

LogCons(entry, rest) == [w |-> rest.w, log |-> <<entry>> \o rest.log]

RECURSIVE RunTxs(_, _, _, _, _)

\* The rest of the group after its i-th transaction returned r
TxsAfter(w, r, grp, i, left_bound, right_bound) ==
    LogCons(TxEntry(w, r, grp[i], left_bound),
            RunTxs(r.w, grp, i + 1, left_bound, right_bound))

\* block_state_transition, lines 287..288: the transactions of one group
\* from the i-th on; log lists what each did
RunTxs(w, grp, i, left_bound, right_bound) ==
    IF i > Len(grp) \/ w.err # "" THEN [w |-> w, log |-> <<>>]
    ELSE TxsAfter(w, tx_state_transition(w, grp[i], left_bound, right_bound,
                                         TT255),
                  grp, i, left_bound, right_bound)

\* Lines 290..291: the log slots read, up to the first empty one
RECURSIVE ReadLogs(_, _, _, _)
ReadLogs(x, lg, n, i) ==
    IF i >= n \/ Lookup(x.st, lg, W(i)) = Empty THEN x
    ELSE ReadLogs(WGet(x, lg, <<"int", i>>), lg, n, i + 1)

\* What one group did: its limit and intrinsic gas, the value passed to
\* initialize_with_gas_limit, GAS_REMAINING afterwards, its transactions,
\* and how it ended: "ok", "aborted" by a transaction that raised, or the
\* assertion of line 289 ("txindex") or 291 ("log") that failed
GroupEntry(summ, start, txs, ended) ==
    [gas_limit |-> summ.gas_limit, intrinsic_gas |-> summ.intrinsic_gas,
     init |-> summ.gas_limit - summ.intrinsic_gas, start |-> start,
     txs |-> txs, ended |-> ended]

\* Lines 289..291, t being the outcome of the group's transactions
GroupChecked(t, summ, grp, ex, lg, start) ==
    IF t.w.err # ""
    THEN [w |-> t.w, entry |-> GroupEntry(summ, start, t.log, "aborted")]
    ELSE IF big_endian_to_int(Lookup(t.w.st, ex, W(TXINDEX))) # Len(grp)
    THEN [w |-> Raise(WGet(t.w, ex, <<"int", TXINDEX>>), "AssertionError"),
          entry |-> GroupEntry(summ, start, t.log, "txindex")]
    ELSE IF \E i \in 0..(Len(grp) - 1) : Lookup(t.w.st, lg, W(i)) = Empty
    THEN [w |-> Raise(ReadLogs(WGet(t.w, ex, <<"int", TXINDEX>>), lg,
                               Len(grp), 0), "AssertionError"),
          entry |-> GroupEntry(summ, start, t.log, "log")]
    ELSE [w |-> ReadLogs(WGet(t.w, ex, <<"int", TXINDEX>>), lg, Len(grp), 0),
          entry |-> GroupEntry(summ, start, t.log, "ok")]

\* Lines 287..291, x being the world after initialize_with_gas_limit
GroupRun(x, summ, grp) ==
    GroupChecked(RunTxs(x, grp, 1, summ.left_bound, summ.right_bound),
                 summ, grp, shardify(EXECUTION_STATE, summ.left_bound),
                 shardify(LOG, summ.left_bound),
                 GasLeft(x.st, summ.left_bound))

\* block_state_transition, lines 279..291: one (summary, group) pair
RunGroup(w, summ, grp) ==
    GroupRun(initialize_with_gas_limit(
                 WSet(w, shardify(EXECUTION_STATE, summ.left_bound),
                      <<"int", TXINDEX>>, <<"int", 0>>),
                 summ.gas_limit - summ.intrinsic_gas, summ.left_bound),
             summ, grp)

RECURSIVE RunGroups(_, _, _)

GroupCons(entry, rest) ==
    [w |-> rest.w, groups |-> <<entry>> \o rest.groups]

\* The rest of the block after its i-th group returned r
GroupsAfter(r, block, i) ==
    GroupCons(r.entry, RunGroups(r.w, block, i + 1))

\* block_state_transition, line 278: the pairs of zip(summaries, groups)
\* from the i-th on
RunGroups(w, block, i) ==
    IF i > MinOf(Len(block.summaries), Len(block.transaction_groups))
       \/ w.err # ""
    THEN [w |-> w, groups |-> <<>>]
    ELSE GroupsAfter(RunGroup(w, block.summaries[i],
                              block.transaction_groups[i]), block, i)

\* pre + (block.hash if block else 'NONE')
CheckKey(pre, block) ==
    <<pre, IF block # None THEN BlockHash(block[1]) ELSE <<"NONE">> >>

\* state.root as a value
RootValue(st) == <<"r", root(st).root_hash>>

\* What a call of block_state_transition did: the world afterwards, whether
\* it returned, the roots read first and last, what each group did
BlockResult(w, done, pre, post, groups) ==
    [w |-> w, done |-> done, pre |-> pre, post |-> post, groups |-> groups]

\* block_state_transition is modelled in steps; each step takes what the
\* lines before it computed.

\* Lines 305..308, x being the world after the last read of state.root
BlockMemo(x, check_key, pre, post, groups) ==
    IF check_key \notin DOMAIN x.tcm
    THEN BlockResult([x EXCEPT !.tcm = Put(@, check_key, post)], TRUE, pre,
                     post, groups)
    ELSE IF x.tcm[check_key] # post
    THEN BlockResult(Raise(x, "AssertionError: transition_cache_map"),
                     FALSE, pre, post, groups)
    ELSE BlockResult(x, TRUE, pre, post, groups)

\* Lines 303..308
BlockFinish(x, block, pre, groups) ==
    BlockMemo([x EXCEPT !.st = root(x.st)], CheckKey(pre, block), pre,
              RootValue(x.st), groups)

\* Mutant of NewSeed: the hash is stored as it is
NewSeed_HashOnly(st, blknumber, blkproposer) ==
    Sha3Int(IF blknumber # 0
            THEN Lookup(st, RNGSEEDS, encode_int32(blknumber - 1))
            ELSE W(0), blkproposer)

\* Lines 298..301: the new RNG seed
NewSeed(st, blknumber, blkproposer) ==
    LET prevseed == IF blknumber # 0
                    THEN Lookup(st, RNGSEEDS, encode_int32(blknumber - 1))
                    ELSE W(0)
        mix == Sha3Int(prevseed, blkproposer)
    IN  mix - (mix % TT64) + big_endian_to_int(Lookup(st, CASPER, W(0)))

\* Lines 298..308
BlockSeed(x, block, blknumber, blkproposer, pre, groups) ==
    BlockFinish(
        WSet(WGet(IF blknumber # 0
                  THEN WGet(x, RNGSEEDS, encode_int32(blknumber - 1))
                  ELSE x,
                  CASPER, <<"int", 0>>),
             RNGSEEDS, encode_int32(blknumber),
             <<"int", NewSeed(x.st, blknumber, blkproposer)>>),
        block, pre, groups)

\* Mutant of BlockTail: the counter is read again after the transactions
BlockTail_RereadsCounter(x, block, blknumber, blkproposer, blkhash, pre, groups) ==
    BlockSeed(WSet(WSet(x, BLOCKHASHES, encode_int32(blknumber), blkhash),
                   BLKNUMBER, <<"int", 0>>,
                   encode_int32(big_endian_to_int(
                       Lookup(x.st, BLKNUMBER, W(0))) + 1)),
              block, blknumber, blkproposer, pre, groups)

\* Lines 293..308
BlockTail(x, block, blknumber, blkproposer, blkhash, pre, groups) ==
    BlockSeed(WSet(WSet(x, BLOCKHASHES, encode_int32(blknumber), blkhash),
                   BLKNUMBER, <<"int", 0>>, encode_int32(blknumber + 1)),
              block, blknumber, blkproposer, pre, groups)

\* Lines 293..308, gr being the outcome of the groups
BlockGroupsDone(gr, block, blknumber, blkproposer, blkhash, pre) ==
    IF gr.w.err # ""
    THEN BlockResult(gr.w, FALSE, pre, NoRoot, gr.groups)
    ELSE BlockTail(gr.w, block, blknumber, blkproposer, blkhash, pre,
                   gr.groups)

\* Lines 273..308
BlockBody(x, block, blknumber, blkproposer, blkhash, pre) ==
    IF block # None /\ block[1].header.number # blknumber
    THEN BlockResult(Raise(x, "AssertionError"), FALSE, pre, NoRoot, <<>>)
    ELSE BlockGroupsDone(IF block # None THEN RunGroups(x, block[1], 1)
                         ELSE [w |-> x, groups |-> <<>>],
                         block, blknumber, blkproposer, blkhash, pre)

\* Lines 265..308, x being the world after blknumber was read
BlockHead(x, block, blknumber, pre) ==
    BlockBody(WSet(IF blknumber # 0
                   THEN WSet([x EXCEPT !.st = root(x.st)], STATEROOTS,
                             encode_int32(blknumber - 1), RootValue(x.st))
                   ELSE x,
                   PROPOSER, <<"int", 0>>,
                   IF block # None THEN block[1].header.proposer
                   ELSE ADDR_ZERO),
              block, blknumber,
              IF block # None THEN block[1].header.proposer ELSE ADDR_ZERO,
              IF block # None THEN BlockHash(block[1]) ELSE W(0),
              pre)

\* block_state_transition(state, block); block is None or Some(block)
block_state_transition(w, block) ==
    BlockHead(WGet([w EXCEPT !.st = root(w.st)], BLKNUMBER, <<"int", 0>>),
              block, big_endian_to_int(Lookup(w.st, BLKNUMBER, W(0))),
              RootValue(w.st))

\* ------------------------------------------------------------------------
\* Contracts and transactions the drivers use
\* ------------------------------------------------------------------------
MaxTxIndex == 3

MaxBlocks == 3

XAddr == <<"X", 0>>

YAddr == <<"Y", 0>>

ZAddr == <<"Z", 0>>

FarAddr == <<"X", 2>>

\* A pure routine: returns at once
PureCode == << <<"RETURN", <<>>>> >>

\* A contract that calls PureCode statically with the gas its call data
\* names and stores the status at key 1
CallerCode == << <<"SCALL", YAddr, PureCode, W(1)>> >>

\* A contract that overwrites the GAS_REMAINING and TXINDEX slots of its
\* own account
GasWriterCode == << <<"SSTORE", W(GAS_REMAINING), W(9)>>,
                    <<"SSTORE", W(TXINDEX), W(0)>> >>

\* Deployment code: returns the code to install
Deploying(code) == << <<"SSTORE", W(3), W(1)>>, <<"RETURN", code>> >>

\* A transaction to XAddr (deploying CallerCode on first use) whose call
\* data is the byte n
TxCall(n) ==
    Transaction(XAddr, Deploying(CallerCode), << <<"b", n>> >>, 1, 6, 1,
                0, MAXSHARDS)

\* exec_gas above any limit, recipient in shard 2, deployment
\* that fails, contract living at the group's execution-state address
TxBig == Transaction(XAddr, <<>>, <<>>, 1, GASLIMIT + 1, 1, 0, MAXSHARDS)

TxFar == Transaction(FarAddr, Deploying(CallerCode), <<>>, 1, 3, 1,
                     0, MAXSHARDS)

TxFailDeploy == Transaction(ZAddr, << <<"SSTORE", W(1), W(1)>>, <<"FAIL">> >>,
                            <<>>, 1, 3, 1, 0, MAXSHARDS)

\* A contract living at the BLKNUMBER address that overwrites the block
\* counter
CounterWriterCode == << <<"SSTORE", W(0), W(7)>> >>

TxCounterWriter == Transaction(BLKNUMBER, Deploying(CounterWriterCode), <<>>,
                               1, 5, 1, 0, MAXSHARDS)

TxGasWriter == Transaction(shardify(EXECUTION_STATE, 0),
                           Deploying(GasWriterCode), <<>>, 1, 5, 1,
                           0, MAXSHARDS)

LAddr == <<"L", 0>>

\* A contract that logs 7, then writes
LoggerCode == << <<"LOG", 7>>, <<"SSTORE", W(1), W(1)>> >>

\* A transaction to LAddr: on first use the deployment leaves gas for the
\* LOG only and the execution fails, afterwards the execution succeeds
TxLogger == Transaction(LAddr, Deploying(LoggerCode), <<>>, 1, 3, 1,
                        0, MAXSHARDS)

ExecTxs ==
    {TxCall(0), TxCall(3), TxBig, TxFar, TxFailDeploy, TxGasWriter, TxLogger}

\* Every location the transactions above can touch
ExecLocs ==
    {shardify(EXECUTION_STATE, 0), shardify(LOG, 0),
     shardify(ETHER, 0), XAddr, YAddr, ZAddr, FarAddr, LAddr}
    \X ({W(n) : n \in 0..3} \cup {Empty, NULL_SENDER})

\* What get_storage returns for every location, without calling it
ExecView(st) == [l \in ExecLocs |-> Lookup(st, l[1], l[2])]

\* The world the variables hold, and back
WorldOf(st, globals, e) ==
    World(st, globals.eve_cache, globals.transition_cache_map, e)

GlobalsOf(w) == [transition_cache_map |-> w.tcm, eve_cache |-> w.eve]

\* ------------------------------------------------------------------------
\* SpecTx: initialize_with_gas_limit and tx_state_transition called
\* directly, in any order, with state.root read in between
\* ------------------------------------------------------------------------
TxNone == [op |-> "none"]

InitTx ==
    /\ s = NewState(BLANK_ROOT, EphemDB)
    /\ c = NoState
    /\ err = ""
    /\ g = Globals0
    /\ h = TxNone

TxInitGas ==
    /\ err = ""
    /\ \E gas_limit \in {2, GASLIMIT}, left_bound \in {0} :
          /\ Lookup(s, shardify(EXECUTION_STATE, left_bound),
                    W(GAS_REMAINING)) = Empty
          /\ s' = initialize_with_gas_limit(WorldOf(s, g, ""), gas_limit,
                                            left_bound).st
    /\ h' = [op |-> "init"]
    /\ UNCHANGED <<c, err, g>>

TxRoot ==
    /\ err = "" /\ s.cache # EmptyMap
    /\ s' = root(s)
    /\ h' = [op |-> "root"]
    /\ UNCHANGED <<c, err, g>>

\* The variables after tx_state_transition returned r
TxDone(r, tx, left_bound, txindex) ==
    /\ s' = r.w.st
    /\ g' = GlobalsOf(r.w)
    /\ err' = r.w.err
    /\ h' = [op |-> "tx", tx |-> tx, left_bound |-> left_bound,
             kind |-> r.kind, rem |-> r.rem, txindex |-> txindex,
             res |-> IF r.kind = "executed" THEN r.res ELSE 0,
             before |-> ExecView(s), eve |-> g.eve_cache]

TxApply ==
    /\ err = ""
    /\ \E tx \in ExecTxs, bounds \in {<<0, MAXSHARDS>>, <<0, 2>>} :
          /\ big_endian_to_int(Lookup(s,
                 shardify(EXECUTION_STATE, bounds[1]), W(TXINDEX)))
                < MaxTxIndex
          /\ TxDone(tx_state_transition(WorldOf(s, g, ""), tx, bounds[1],
                                        bounds[2], TT255),
                    tx, bounds[1],
                    big_endian_to_int(Lookup(s,
                        shardify(EXECUTION_STATE, bounds[1]), W(TXINDEX))))
    /\ UNCHANGED c

NextTx == TxInitGas \/ TxRoot \/ TxApply

SpecTx == InitTx /\ [][NextTx]_vars

\* The GAS_REMAINING, TXINDEX and log locations of the call h records
HExstate == shardify(EXECUTION_STATE, h.left_bound)

HLog == shardify(LOG, h.left_bound)

SkipKinds == {"skip_gas", "skip_range"}

\* C7: after tx_state_transition GAS_REMAINING is its value before minus
\* (tx.exec_gas - msg_gas_remained) when the transaction was executed, and
\* its value before when a pre-check skipped it, whatever the VM wrote.
C7_GasMonotone ==
    (h.op = "tx" /\ err = "") =>
        LET before == big_endian_to_int(
                          h.before[<<HExstate, W(GAS_REMAINING)>>])
            after == GasLeft(s, h.left_bound)
        IN  /\ h.kind = "executed" =>
                  after = before - (h.tx.exec_gas - h.rem)
            /\ h.kind \in SkipKinds => after = before

\* An executed transaction whose code wrote the GAS_REMAINING slot itself
C7_Witness ==
    /\ h.op = "tx" /\ err = "" /\ h.kind = "executed"
    /\ h.tx = TxGasWriter
    /\ h.rem < h.tx.exec_gas
    /\ GasLeft(s, h.left_bound) # 9

\* C10: a transaction skipped by a pre-check changes only (_LOG, txindex),
\* which becomes [0], and (_EXSTATE, TXINDEX), which grows by one; every
\* other location keeps its value and no message is applied.
C10_SkipIsNoOp ==
    (h.op = "tx" /\ h.kind \in SkipKinds) =>
        /\ err = ""
        /\ g.eve_cache = h.eve
        /\ \A l \in ExecLocs :
              IF l = <<HLog, W(h.txindex)>>
              THEN ExecView(s)[l] = RlpList(<<0>>)
              ELSE IF l = <<HExstate, W(TXINDEX)>>
              THEN ExecView(s)[l] = W(h.txindex + 1)
              ELSE ExecView(s)[l] = h.before[l]

\* Skipped for lack of gas after an earlier transaction was executed
C10_Witness ==
    /\ h.op = "tx" /\ h.kind = "skip_gas" /\ h.txindex > 0
    /\ h.before[<<HExstate, W(GAS_REMAINING)>>] \notin {Empty, W(0)}
    /\ h.before[<<XAddr, Empty>>] # Empty

\* ------------------------------------------------------------------------
\* SpecChain: block_state_transition applied to constructed blocks and to
\* None; the State may be rebuilt from a root the process has seen (the
\* database and both memos live on).  h.n counts the transitions made.
\* ------------------------------------------------------------------------
\* A transaction in shards [0, 2) that carries intrinsic gas only
TxIntrinsic == Transaction(XAddr, <<>>, <<>>, 1, 0, 1, 0, 2)

ChainArgs ==
    {AutoArgs(txs, number, ADDR_ZERO) :
        txs \in {<<>>, <<TxCall(0)>>, <<TxCall(3)>>, <<TxBig, TxFailDeploy>>,
                 <<TxGasWriter, TxCall(3)>>,
                 <<TxBig, TxFailDeploy, TxLogger, TxLogger>>,
                 <<TxCounterWriter>>},
        number \in {0, 1}}
    \cup
    {Matching(<<gas_limit>>, <<<<0, 2>>>>, <<grp>>) :
        gas_limit \in {0, GASLIMIT - 1},
        grp \in {<<TxIntrinsic>>, <<TxIntrinsic, TxFar>>}}

\* The blocks construction accepts
ChainBlocks == {Block(a) : a \in {x \in ChainArgs : BlockAccepted(x)}}

\* The block counter, as block_state_transition reads it
Counter(st) == big_endian_to_int(Lookup(st, BLKNUMBER, W(0)))

\* h.base is the counter of the State when it was built, h.completed the
\* transitions completed on it since
ChainNone == [op |-> "none", n |-> 0, base |-> 0, completed |-> 0]

InitChain ==
    /\ s = NewState(BLANK_ROOT, EphemDB)
    /\ c = NoState
    /\ err = ""
    /\ g = Globals0
    /\ h = ChainNone

\* The variables after block_state_transition returned r; h also records
\* what the same call does in a fresh process (both memos empty) on a
\* State of the same root
ChainDone(r, fresh, block) ==
    /\ s' = r.w.st
    /\ g' = GlobalsOf(r.w)
    /\ err' = r.w.err
    /\ h' = [op |-> "block", n |-> h.n + 1, done |-> r.done, pre |-> r.pre,
             post |-> r.post, groups |-> r.groups,
             fresh_done |-> fresh.done, fresh_post |-> fresh.post,
             block |-> block, number |-> Counter(s), base |-> h.base,
             completed |-> h.completed + (IF r.done THEN 1 ELSE 0)]

ChainBlock ==
    /\ err = ""
    /\ h.n < MaxBlocks
    /\ \E block \in {Some(b) : b \in ChainBlocks} \cup {None} :
          ChainDone(block_state_transition(WorldOf(s, g, ""), block),
                    block_state_transition(
                        WorldOf(NewState(root(s).root_hash, s.db),
                                Globals0, ""),
                        block),
                    block)
    /\ UNCHANGED c

\* State(root, db) for a root read earlier
ChainReopen ==
    /\ err = ""
    /\ \E k \in DOMAIN g.transition_cache_map :
          /\ s.root_hash # k[1][2] \/ s.cache # EmptyMap
          /\ s' = NewState(k[1][2], s.db)
    /\ h' = [op |-> "reopen", n |-> h.n, base |-> Counter(s'),
             completed |-> 0]
    /\ UNCHANGED <<c, err, g>>

NextChain == ChainBlock \/ ChainReopen

SpecChain == InitChain /\ [][NextChain]_vars

\* C6: block_state_transition from a given root on a given block reaches
\* the same post-state root on every run, whatever calls the process made
\* before, and the determinism-memo assertion never fails.
C6_BlockTransitionDeterministic ==
    /\ err # "AssertionError: transition_cache_map"
    /\ (h.op = "block" /\ h.done /\ h.fresh_done) => h.post = h.fresh_post
    /\ (h.op = "block" /\ h.fresh_done) => h.done

RECURSIVE SumCharged(_)
SumCharged(txs) ==
    IF txs = <<>> THEN 0 ELSE txs[1].charged + SumCharged(Tail(txs))

\* C8: for every group of a constructed block GAS_REMAINING starts at
\* s.gas_limit - s.intrinsic_gas >= 0 and stays >= 0 after every
\* transaction, so intrinsic gas plus the gas charged to the executed
\* transactions never exceeds s.gas_limit.
C8_GroupWithinGasLimit ==
    h.op = "block" =>
        \A i \in 1..Len(h.groups) :
            LET grp == h.groups[i]
            IN  /\ grp.init >= 0
                /\ grp.start = grp.init
                /\ \A j \in 1..Len(grp.txs) : grp.txs[j].after >= 0
                /\ grp.intrinsic_gas + SumCharged(grp.txs) <= grp.gas_limit

\* ------------------------------------------------------------------------
\* SpecMsg: apply_msg called directly, through either facade, on a State
\* that holds some ether; h.n counts the calls made
\* ------------------------------------------------------------------------
MaxMsgs == 2

AAddr == <<"A", 0>>

BAddr == <<"B", 0>>

CAddr == <<"C", 1>>

\* A writes, then fails
WriteThenFail == << <<"SSTORE", W(1), W(1)>>, <<"FAIL">> >>

\* Writes and returns
WriteCode == << <<"SSTORE", W(1), W(1)>> >>

\* A nested call that succeeds (it writes and is paid 1), then failure
NestedThenFail == << <<"CALL", CAddr, 1, WriteCode, W(2)>>, <<"FAIL">> >>

\* A write, then a nested call that fails after writing and being paid 1
NestedFails == << <<"SSTORE", W(1), W(1)>>,
                  <<"CALL", CAddr, 1, WriteThenFail, W(2)>> >>

\* The same bytes split in two ways between call data and code
SplitByte == <<"b", 0>>

SplitCode == << <<"RETURN", <<>>>> >>

JoinedCode == <<SplitByte>> \o SplitCode

MsgCodes == {WriteThenFail, WriteCode, NestedThenFail, NestedFails}

\* The calls made: every value and gas with the writing codes, and the two
\* splits with each gas
MsgInputs ==
    {<<Message(AAddr, BAddr, value, gas, <<>>, 0, MAXSHARDS), code>> :
        value \in {0, 2, 9}, gas \in {1, 6}, code \in MsgCodes}
    \cup
    {<<Message(AAddr, BAddr, 0, gas, <<SplitByte>>, 0, MAXSHARDS),
       SplitCode>> : gas \in {1, 6}}
    \cup
    {<<Message(AAddr, BAddr, 0, gas, <<>>, 0, MAXSHARDS), JoinedCode>> :
        gas \in {1, 6}}

\* The State holds 3 for A (shard 0) and 1 for B
MsgRoot ==
    Put(EmptyMap, shardify(ETHER, 0),
        Put(Put(EmptyMap, AAddr, W(3)), BAddr, W(1)))

MsgLocs ==
    ({shardify(ETHER, 0), shardify(ETHER, 1)} \X {AAddr, BAddr, CAddr}) \cup
    ({AAddr, BAddr, CAddr} \X {W(1), W(2)})

MsgView(st) == [l \in MsgLocs |-> Lookup(st, l[1], l[2])]

MsgNone == [op |-> "none", n |-> 0]

InitMsg ==
    /\ s = NewState(MsgRoot, EphemDB)
    /\ c = NoState
    /\ err = ""
    /\ g = Globals0
    /\ h = MsgNone

\* The variables after apply_msg returned r; h also records what the same
\* call returns when eve_cache is empty
MsgDone(r, cold, ext, msg, code) ==
    /\ s' = r.w.st
    /\ g' = GlobalsOf(r.w)
    /\ h' = [op |-> "msg", n |-> h.n + 1, ext |-> ext, msg |-> msg,
             code |-> code, out |-> <<r.res, r.gas, r.dat>>,
             cold |-> <<cold.res, cold.gas, cold.dat>>,
             before |-> MsgView(s), eve |-> g.eve_cache]

MsgApply ==
    /\ err = "" /\ h.n < MaxMsgs
    /\ \E ext \in {"state", "empty"}, in \in MsgInputs :
          MsgDone(apply_msg(WorldOf(s, g, ""), ext, in[1], in[2]),
                  apply_msg(WorldOf(s, Globals0, ""), ext, in[1], in[2]),
                  ext, in[1], in[2])
    /\ UNCHANGED <<c, err>>

MsgCommit ==
    /\ err = "" /\ s.cache # EmptyMap
    /\ s' = root(s)
    /\ h' = [op |-> "root", n |-> h.n]
    /\ UNCHANGED <<c, err, g>>

NextMsg == MsgApply \/ MsgCommit

SpecMsg == InitMsg /\ [][NextMsg]_vars

BalanceIn(view, shard, addr) ==
    big_endian_to_int(view[<<shardify(ETHER, shard), addr>>])

\* The call h records moved its value: the state facade, and the sender
\* had enough
Transferred ==
    /\ h.op = "msg" /\ h.ext = "state"
    /\ BalanceIn(h.before, 0, AAddr) >= h.msg.value

\* C11: a call that returns status 0 leaves every storage location (the
\* balances of its transfer and the writes of nested calls that succeeded
\* included) at the value it had when the call started and returns gas 0;
\* when only a nested call fails, the outer call's write and transfer stay
\* and the nested call's write and transfer are undone
C11_FailureIsAtomic ==
    h.op = "msg" =>
        /\ h.out[1] = 0 => MsgView(s) = h.before /\ h.out[2] = 0
        /\ (Transferred /\ h.code = NestedFails /\ h.msg.gas = 6) =>
              /\ h.out[1] = 1
              /\ Lookup(s, BAddr, W(1)) = W(1)
              /\ Lookup(s, CAddr, W(1)) = h.before[<<CAddr, W(1)>>]
              /\ BalanceIn(MsgView(s), 1, CAddr) = BalanceIn(h.before, 1, CAddr)
              /\ BalanceIn(MsgView(s), 0, AAddr) =
                     BalanceIn(h.before, 0, AAddr) - h.msg.value
              /\ BalanceIn(MsgView(s), 0, BAddr) =
                     BalanceIn(h.before, 0, BAddr) + h.msg.value

\* A call that moved 2, whose nested call wrote, was paid and succeeded, and
\* that failed afterwards
C11_Witness ==
    /\ Transferred /\ h.code = NestedThenFail
    /\ h.msg.value = 2 /\ h.msg.gas = 6
    /\ h.out[1] = 0

\* The other case: the nested call failed, the outer call succeeded
C11_NestedWitness ==
    /\ Transferred /\ h.code = NestedFails
    /\ h.msg.value = 2 /\ h.msg.gas = 6
    /\ h.out[1] = 1

\* Every key of memo keeps its value in memo2
KeepsEntries(memo, memo2) ==
    \A k \in DOMAIN memo : k \in DOMAIN memo2 /\ memo2[k] = memo[k]

\* C12: both process-wide memos are write-once per key: no step replaces or
\* removes the value transition_cache_map or eve_cache holds for a key
C12_MemosWriteOnce ==
    [][/\ KeepsEntries(g.transition_cache_map, g'.transition_cache_map)
       /\ KeepsEntries(g.eve_cache, g'.eve_cache)]_vars

\* The part of C12 that is about transition_cache_map
C12_TransitionMemoWriteOnce ==
    [][KeepsEntries(g.transition_cache_map, g'.transition_cache_map)]_vars

\* C13: in every group a block ran, the i-th transaction started with
\* TXINDEX = i and, having returned (skipped, deployment failed, execution
\* failed or succeeded), left a non-empty log in slot i; neither post-group
\* assertion failed, and a group all of whose transactions returned ended
\* with TXINDEX = len(g) and every log slot filled
C13_SequentialIndexing ==
    h.op = "block" =>
        \A i \in 1..Len(h.groups) :
            /\ h.groups[i].ended \notin {"txindex", "log"}
            /\ \A j \in 1..Len(h.groups[i].txs) :
                  /\ h.groups[i].txs[j].index = j - 1
                  /\ h.groups[i].txs[j].kind # "raised" =>
                        h.groups[i].txs[j].log # Empty
            /\ (\A j \in 1..Len(h.groups[i].txs) :
                    h.groups[i].txs[j].kind # "raised") =>
                  h.groups[i].ended = "ok"

\* A group of four that ended well: a skip, a failed deployment, a failed
\* execution and a success that logged
C13_Witness ==
    /\ h.op = "block" /\ h.done
    /\ Len(h.groups) = 1 /\ h.groups[1].ended = "ok"
    /\ Len(h.groups[1].txs) = 4
    /\ h.groups[1].txs[1].kind = "skip_gas"
    /\ h.groups[1].txs[2].kind = "failed_deploy"
    /\ h.groups[1].txs[3].log = RlpList(<<1>>)
    /\ h.groups[1].txs[4].log = RlpList(<<2, 7>>)

\* The log slot of the transaction h records
HLogSlot == Lookup(s, HLog, W(h.txindex))

\* The execution message of the transaction h records returned status 0
ExecutionFailed == h.kind = "executed" /\ h.res = 0

\* C14: after a transaction returned, the first element of its log is 0
\* exactly when a pre-check skipped it, 1 exactly when its deployment or
\* execution message returned status 0, 2 exactly when its execution
\* succeeded; after a failed execution the log is exactly [1]
C14_LogStatusTagging ==
    (h.op = "tx" /\ err = "") =>
        /\ HLogSlot[1] = "l" /\ HLogSlot[2] # <<>>
        /\ HLogSlot[2][1] = 0 <=> h.kind \in SkipKinds
        /\ HLogSlot[2][1] = 1 <=> (h.kind = "failed_deploy" \/ ExecutionFailed)
        /\ HLogSlot[2][1] = 2 <=> (h.kind = "executed" /\ h.res # 0)
        /\ ExecutionFailed => HLogSlot = RlpList(<<1>>)

\* An execution that logged and then ran out of gas
C14_Witness ==
    /\ h.op = "tx" /\ err = "" /\ h.tx = TxLogger
    /\ ExecutionFailed
    /\ HLogSlot = RlpList(<<1>>)

\* cache_key of the deployment message of the transaction h records
HDeploymentKey ==
    CacheKey(Message(NULL_SENDER, h.tx.addr, 0, h.tx.exec_gas, <<>>,
                     h.left_bound, MAXSHARDS), h.tx.code)

\* The locations a transaction that got past the pre-checks always writes
HWritten ==
    {<<HLog, W(h.txindex)>>, <<HExstate, W(TXINDEX)>>, <<HExstate, W(TXGAS)>>}

\* C15: a transaction whose deployment message returned status 0 leaves [1]
\* at (_LOG, txindex) and TXINDEX one higher; the code-hash slot of the
\* target is still empty, GAS_REMAINING and every location the deployment
\* wrote have their value of before, and the only message applied is the
\* deployment (the memo gained the deployment's key and nothing else)
C15_FailedDeployment ==
    (h.op = "tx" /\ h.kind = "failed_deploy") =>
        /\ err = ""
        /\ h.tx.code # <<>> /\ h.before[<<h.tx.addr, Empty>>] = Empty
        /\ HLogSlot = RlpList(<<1>>)
        /\ Lookup(s, HExstate, W(TXINDEX)) = W(h.txindex + 1)
        /\ Lookup(s, h.tx.addr, Empty) = Empty
        /\ GasLeft(s, h.left_bound) =
               big_endian_to_int(h.before[<<HExstate, W(GAS_REMAINING)>>])
        /\ \A l \in ExecLocs \ HWritten : ExecView(s)[l] = h.before[l]
        /\ g.eve_cache = Put(h.eve, HDeploymentKey, <<0, 0, <<>>>>)

\* A deployment that failed after an earlier transaction was executed and
\* while gas was left
C15_Witness ==
    /\ h.op = "tx" /\ h.kind = "failed_deploy" /\ h.txindex > 0
    /\ h.before[<<HExstate, W(GAS_REMAINING)>>] \notin {Empty, W(0)}
    /\ h.before[<<XAddr, Empty>>] # Empty
    /\ HLogSlot = RlpList(<<1>>)

\* The sender of the call h records held less than msg.value when the call
\* started
Insufficient ==
    /\ h.op = "msg" /\ h.msg.transfers_value
    /\ BalanceIn(h.before, 0, h.msg.sender) < h.msg.value

\* C16: a call whose sender holds less than msg.value returns
\* (1, msg.gas, []), changes no storage location and writes no memo entry
C16_SoftFailure ==
    Insufficient =>
        /\ h.out = <<1, h.msg.gas, <<>>>>
        /\ MsgView(s) = h.before
        /\ g.eve_cache = h.eve

\* The same for calls made through a state-backed facade only
C16_StateSoftFailure ==
    (Insufficient /\ h.ext = "state") =>
        /\ h.out = <<1, h.msg.gas, <<>>>>
        /\ MsgView(s) = h.before
        /\ g.eve_cache = h.eve

\* The hash block_state_transition stores for a block
StoredHash(block) == IF block = None THEN W(0) ELSE BlockHash(block[1])

\* C17: a completed block_state_transition leaves the counter at
\* (BLKNUMBER, 0) one above its value n of before and the block's hash (32
\* zero bytes for None) at (BLOCKHASHES, n), whatever the transactions
\* wrote; a block whose header number is not n is aborted with no
\* transaction applied; so the counter is the counter the State started
\* with plus the transitions completed on it
C17_BlockCounter ==
    /\ h.op = "block" =>
          /\ h.done =>
                /\ err = ""
                /\ Counter(s) = h.number + 1
                /\ Lookup(s, BLOCKHASHES, W(h.number)) = StoredHash(h.block)
          /\ (h.block # None /\ h.block[1].header.number # h.number) =>
                /\ ~h.done /\ err = "AssertionError"
                /\ h.groups = <<>>
                /\ Counter(s) = h.number
    /\ Counter(s) = h.base + h.completed

\* The second transition completed from the empty state, its transaction
\* having written 7 over the counter
C17_Witness ==
    /\ h.op = "block" /\ h.done
    /\ h.base = 0 /\ h.completed = 2 /\ Counter(s) = 2
    /\ h.block # None
    /\ Len(h.groups) = 1 /\ Len(h.groups[1].txs) = 1
    /\ h.groups[1].txs[1].kind = "executed"
    /\ h.block[1].transaction_groups[1][1] = TxCounterWriter

\* ------------------------------------------------------------------------
\* SpecSeed: block_state_transition on blocks whose transactions store a
\* value at (CASPER, 0); every block carries the number the State expects
\* ------------------------------------------------------------------------
MaxSeedBlocks == 3

\* A contract living at the CASPER address that stores n at key 0
TxCasperWriter(n) ==
    Transaction(CASPER, Deploying(<< <<"SSTORE", W(0), W(n)>> >>), <<>>,
                1, 5, 1, 0, MAXSHARDS)

\* Values below and above 2**64, and the highest 32-byte value
CasperValues == {3, TT64 + 4, TT256 - 1}

SeedGroups == {<<>>} \cup {<<TxCasperWriter(n)>> : n \in CasperValues}

SeedBlock ==
    /\ err = ""
    /\ h.n < MaxSeedBlocks
    /\ \E block \in {None} \cup
                    {Some(Block(AutoArgs(txs, Counter(s), proposer))) :
                        txs \in SeedGroups, proposer \in {ADDR_ZERO, XAddr}} :
          ChainDone(block_state_transition(WorldOf(s, g, ""), block),
                    block_state_transition(
                        WorldOf(NewState(root(s).root_hash, s.db),
                                Globals0, ""),
                        block),
                    block)
    /\ UNCHANGED c

NextSeed == SeedBlock

SpecSeed == InitChain /\ [][NextSeed]_vars

\* The seed stored for the block h records, the value at (CASPER, 0), and
\* hash(prev_seed || proposer)
HSeed == big_endian_to_int(Lookup(s, RNGSEEDS, W(h.number)))

HCasper == big_endian_to_int(Lookup(s, CASPER, W(0)))

HMix ==
    Sha3Int(IF h.number = 0 THEN W(0)
            ELSE Lookup(s, RNGSEEDS, W(h.number - 1)),
            IF h.block = None THEN ADDR_ZERO
            ELSE h.block[1].header.proposer)

\* C18: after a block_state_transition at block number n the value at
\* (RNGSEEDS, n) has the integer at (CASPER, 0) in its low 64 bits and the
\* upper 192 bits of hash(prev_seed || proposer) above them, for every
\* value stored at (CASPER, 0)
C18_SeedBitLayout ==
    (h.op = "block" /\ h.done) =>
        /\ HSeed % TT64 = HCasper
        /\ HSeed \div TT64 = HMix \div TT64

\* The same for values at (CASPER, 0) that fit in 64 bits
C18_SeedBitLayoutSmall ==
    (h.op = "block" /\ h.done /\ HCasper < TT64) =>
        /\ HSeed % TT64 = HCasper
        /\ HSeed \div TT64 = HMix \div TT64

\* A seed built from a validator count of 3 and a previous seed
C18_SmallWitness ==
    /\ h.op = "block" /\ h.done /\ h.number > 0
    /\ HCasper = 3 /\ HSeed % TT64 = 3
    /\ HMix % TT64 # 3

\* The call h records was made through the empty facade, was executed (its
\* key was not in the memo) and succeeded
PureSuccess ==
    /\ h.ext = "empty"
    /\ CacheKey(h.msg, h.code) \notin DOMAIN h.eve
    /\ h.out[1] # 0

\* C19: eve_cache changes only through a successful call made through the
\* empty facade: a call through a state-backed facade and a call that
\* fails leave every entry as it was and add none
C19_MemoOnlyByPureCalls ==
    h.op = "msg" =>
        \/ g.eve_cache = h.eve
        \/ PureSuccess

\* The part of C19 that holds: a memo hit adds and changes nothing
C19_HitLeavesMemo ==
    (h.op = "msg" /\ h.ext = "empty"
        /\ CacheKey(h.msg, h.code) \in DOMAIN h.eve) =>
            g.eve_cache = h.eve

\* C19 for failed calls through the empty facade alone
C19_FailedPureCallLeavesMemo ==
    (h.op = "msg" /\ h.ext = "empty" /\ h.out[1] = 0) =>
        g.eve_cache = h.eve

\* C20: a call through the empty facade returns the triple an execution
\* without the memo returns, whatever calls came before, and never more
\* gas than the message carried
C20_HitEqualsExecution ==
    (h.op = "msg" /\ h.ext = "empty") =>
        /\ h.out = h.cold
        /\ h.out[2] <= h.msg.gas

\* ------------------------------------------------------------------------
\* SpecEther: apply_msg through the state-backed facade with messages that
\* send value to another account of the shard, to the sender itself and
\* to another shard, with and without transfers_value
\* ------------------------------------------------------------------------
\* A nested call that is paid 1, writes and succeeds
PayOn == << <<"CALL", CAddr, 1, WriteCode, W(2)>> >>

EtherCodes == {WriteCode, WriteThenFail, PayOn, NestedThenFail}

\* msg.transfers_value = False
WithoutTransfer(msg) == [msg EXCEPT !.transfers_value = FALSE]

EtherMessages ==
    {Message(AAddr, to, value, 6, <<>>, 0, MAXSHARDS) :
        to \in {AAddr, BAddr, CAddr}, value \in {0, 2}}

\* Every message, and those of value 2 also without transfers_value
EtherInputs ==
    (EtherMessages \cup
        {WithoutTransfer(m) : m \in {x \in EtherMessages : x.value = 2}})
    \X EtherCodes

EtherApply ==
    /\ err = "" /\ h.n < MaxMsgs
    /\ \E in \in EtherInputs :
          MsgDone(apply_msg(WorldOf(s, g, ""), "state", in[1], in[2]),
                  apply_msg(WorldOf(s, Globals0, ""), "state", in[1], in[2]),
                  "state", in[1], in[2])
    /\ UNCHANGED <<c, err>>

NextEther == EtherApply \/ MsgCommit

SpecEther == InitMsg /\ [][NextEther]_vars

\* The balance of addr under the ETHER address of its shard
BalanceOf(view, addr) == BalanceIn(view, get_shard(addr), addr)

\* The sum of all balances stored under the ETHER addresses
TotalEther(view) ==
    BalanceIn(view, 0, AAddr) + BalanceIn(view, 0, BAddr)
    + BalanceIn(view, 0, CAddr) + BalanceIn(view, 1, AAddr)
    + BalanceIn(view, 1, BAddr) + BalanceIn(view, 1, CAddr)

\* The balances of a view
Balances(view) ==
    [l \in {shardify(ETHER, 0), shardify(ETHER, 1)}
           \X {AAddr, BAddr, CAddr} |-> big_endian_to_int(view[l])]

\* The call h records moved msg.value: it transfers value, the sender held
\* enough and the call did not fail
HMoved ==
    /\ h.msg.transfers_value
    /\ BalanceOf(h.before, h.msg.sender) >= h.msg.value
    /\ h.out[1] # 0

\* The call h records moved nothing of its own: it failed, its sender held
\* too little, or it does not transfer value
HMovedNothing ==
    \/ h.out[1] = 0
    \/ Insufficient
    \/ ~h.msg.transfers_value

\* C21: a call through a state-backed facade leaves the sum of all
\* balances as it was (a debit below zero would be stored as the zero word
\* and change the sum); a call that fails or whose sender holds too little
\* leaves every balance as it was; a successful call whose code pays nobody
\* debits the sender and credits the recipient by exactly msg.value, in
\* the same or in another shard, and changes nothing when they are the
\* same account or when the message does not transfer value
C21_EtherConserved ==
    h.op = "msg" =>
        /\ TotalEther(MsgView(s)) = TotalEther(h.before)
        /\ (h.out[1] = 0 \/ Insufficient) =>
              Balances(MsgView(s)) = Balances(h.before)
        /\ (HMovedNothing /\ h.code = WriteCode) =>
              Balances(MsgView(s)) = Balances(h.before)
        /\ (HMoved /\ h.code = WriteCode /\ h.msg.sender # h.msg.to) =>
              /\ BalanceOf(MsgView(s), h.msg.sender) =
                     BalanceOf(h.before, h.msg.sender) - h.msg.value
              /\ BalanceOf(MsgView(s), h.msg.to) =
                     BalanceOf(h.before, h.msg.to) + h.msg.value
        /\ (HMoved /\ h.code = WriteCode /\ h.msg.sender = h.msg.to) =>
              Balances(MsgView(s)) = Balances(h.before)

\* The sender paid 2 to itself and the call succeeded
C21_Witness ==
    /\ h.op = "msg" /\ HMoved
    /\ h.msg.to = h.msg.sender /\ h.msg.value = 2
    /\ h.code = WriteCode
    /\ BalanceOf(MsgView(s), AAddr) = 3

\* 2 went from shard 0 to shard 1
C21_CrossShardWitness ==
    /\ h.op = "msg" /\ HMoved
    /\ h.msg.to = CAddr /\ h.msg.value = 2 /\ h.code = WriteCode
    /\ BalanceIn(MsgView(s), 1, CAddr) = BalanceIn(h.before, 1, CAddr) + 2

==========================================================================
